---- MODULE Spec2Model ----
(***************************************************************************)
(* Model of the lecture-slide scripts of mathematics-for-ai:                *)
(*   - the two generate_all.py runners (sequential loop over SCRIPTS),      *)
(*   - the two asset downloaders (sequential loop over a list of URLs),     *)
(*   - the graph constructions of gen_02 / gen_03 (Koenigsberg, Euler path),*)
(*   - the Pruefer-sequence tree enumeration of gen_04,                     *)
(*   - the rewired-edge detection of gen_07,                                *)
(*   - the attention masks of gen_22,                                       *)
(*   - the bridge-node detection of gen_08.                                 *)
(* One run of the model is one run of one script: Init picks the script     *)
(* (prog) and its inputs, the actions are the script's steps.               *)
(***************************************************************************)
EXTENDS Integers, Sequences, FiniteSets

VARIABLES
    prog,        \* the script being run
    pc,          \* its position
    i,           \* loop index (1-based) of the script's main loop
    ok,          \* generate_all / download_*: result of the last per-item call
    successes,   \* generate_all / download_*: main()'s counter
    failures,    \* generate_all / download_*: main()'s list
    out,         \* generate_all: the per-script report lines printed by main()
    calls,       \* event log: call / body outcome / return of each per-item call
    faults,      \* number of exceptions raised so far by existing modules / the network / the disk
    rc,          \* main()'s return value, -1 while running
    written,     \* download_*: dest files whose data has been fetched and written
    G1,          \* gen_02 G / gen_03 G1: MultiGraph, the list of its edges
    labels1,     \* gen_02 / gen_03: degree annotation drawn per node
    G2,          \* gen_03: Graph, the set of its (unordered) edges
    drawn,       \* gen_03: the arrows drawn along euler_path, in order
    labels2,     \* gen_03: degree annotation drawn per node of G2
    n,           \* gen_04: argument of all_labeled_trees
    todo,        \* gen_04: the Pruefer sequences itertools.product still yields
    trees,       \* gen_04: the list all_labeled_trees builds
    pruferCalls, \* gen_04: argument and result of each prufer_to_tree call
    G_regular,   \* gen_07: edge set of the p=0 baseline
    G_rewired,   \* gen_07: G_rewired.edges(), a list of ordered pairs
    kept,        \* gen_07: result list
    rewired,     \* gen_07: result list
    w,           \* gen_22: argument of sliding_window / longformer
    mat,         \* gen_22: the matrix returned
    panels,      \* gen_22: main()'s panels so far, title and edge count shown
    sizes,       \* gen_08: SIZES, the community sizes
    Gsoc,        \* gen_08: the graph G of build_social_network
    community_map, \* gen_08: node -> community index
    bridge_nodes \* gen_08: the set find_bridge_nodes returns

vars == <<prog, pc, i, ok, successes, failures, out, calls, faults, rc, written,
          G1, labels1, G2, drawn, labels2, n, todo, trees, pruferCalls,
          G_regular, G_rewired, kept, rewired, w, mat, panels,
          sizes, Gsoc, community_map, bridge_nodes>>

loopVars   == <<ok, successes, failures, out, calls, faults, rc, written>>
eulerVars  == <<G1, labels1, G2, drawn, labels2>>
treeVars   == <<n, todo, trees, pruferCalls>>
swVars     == <<G_regular, G_rewired, kept, rewired>>
attVars    == <<w, mat, panels>>
bridgeVars == <<sizes, Gsoc, community_map, bridge_nodes>>

----------------------------------------------------------------------------
(* Bounds of the model *)

\* most exceptions (module / network / disk) injected in one run
MaxFaults == 2

\* largest n all_labeled_trees is called with
MaxN == 4

\* gen_07: number of nodes and most edges of the two graphs compared
MaxNodesSW == 3
MaxEdgesSW == 2

\* gen_22: largest window width
MaxW == 4

\* gen_22: largest matrix dimension the edge counts are compared on, besides N
MaxDim == 8

\* gen_08: most nodes of the social network
MaxSocialNodes == 4

----------------------------------------------------------------------------
(* Helpers *)

Range(s) == {s[k] : k \in 1..Len(s)}

\* values the variables of the other scripts hold while one script runs
NoLoop == /\ ok = "none" /\ successes = 0 /\ failures = <<>> /\ out = <<>>
          /\ calls = <<>> /\ faults = 0 /\ rc = -1 /\ written = {}
NoEuler == /\ G1 = <<>> /\ labels1 = <<>> /\ G2 = {} /\ drawn = <<>> /\ labels2 = <<>>
NoTree == /\ n = 0 /\ todo = <<>> /\ trees = <<>> /\ pruferCalls = <<>>
NoSw == /\ G_regular = {} /\ G_rewired = <<>> /\ kept = <<>> /\ rewired = <<>>
NoAtt == /\ w = 0 /\ mat = <<>> /\ panels = <<>>
NoBridge == /\ sizes = <<>> /\ Gsoc = {} /\ community_map = <<>> /\ bridge_nodes = {}

----------------------------------------------------------------------------
(* generate_all.py (lecture-08 and lecture-new-v2) *)

Runners == {"lecture-08/generate_all", "lecture-new-v2/generate_all"}

Scripts08 == <<
    "gen_01_konigsberg", "gen_02_konigsberg_graph", "gen_03_euler_path",
    "gen_04_cayley_trees", "gen_05_parse_tree", "gen_06_random_graph",
    "gen_07_small_world", "gen_08_six_degrees", "gen_09_pagerank",
    "gen_10_pagerank_surfer", "gen_11_nn_architectures", "gen_12_attention",
    "gen_13_knowledge_graph", "gen_14_rag_pipeline", "gen_15_gnn_message",
    "gen_16_molecule", "gen_17_timeline", "gen_18_milgram_letters",
    "gen_19_graphrag_concept" >>

ScriptsV2 == <<
    "gen_01_five_pillars_overview", "gen_02_word_vectors", "gen_03_softmax",
    "gen_04_galton_board", "gen_05_gradient_descent", "gen_06_cross_entropy",
    "gen_07_shannon_diagram", "gen_08_optimizers", "gen_09_scaling_laws",
    "gen_10_convergence", "gen_11_timeline", "gen_12_embedding_space",
    "gen_13_loss_curve", "gen_14_attention_heatmap", "gen_15_hero_neural_net",
    "gen_16_token_pipeline", "gen_17_matrix_multiply", "gen_18_backprop_flow",
    "gen_19_radar_pillars", "gen_20_section_icons" >>

SCRIPTS(r) == IF r = "lecture-08/generate_all" THEN Scripts08 ELSE ScriptsV2

\* the gen_*.py modules present in SCRIPT_DIR, the one directory main() puts on sys.path
GenFiles08 == Range(Scripts08) \cup {
    "gen_20_attention_heatmap", "gen_21_multihead_attention",
    "gen_22_sparse_dense_attention", "gen_23_gnn_vs_transformer",
    "gen_24_emergence", "gen_25_math_constellation",
    "gen_26_attention_derivation", "gen_27_llm_cross_section",
    "gen_28_scaling_laws", "gen_29_five_pillars" }

GenFilesV2 == {
    "gen_01_five_pillars_overview", "gen_03_softmax", "gen_05_gradient_descent",
    "gen_06_cross_entropy", "gen_07_shannon_diagram", "gen_08_optimizers",
    "gen_09_scaling_laws", "gen_12_embedding_space", "gen_13_loss_curve",
    "gen_14_attention_heatmap", "gen_17_matrix_multiply" }

GenFiles(r) == IF r = "lecture-08/generate_all" THEN GenFiles08 ELSE GenFilesV2

\* run_script: True when the try block completes, False from the except clause
\* (faulty variant: the except clause swallows the exception and falls through to return True)
RunScriptReturnAlwaysTrue(raised) == TRUE
RunScriptReturn(raised) == ~raised

\* the for statement of main(): the entry after entry k
\* (faulty variant: the loop advances by two)
NextEntrySkip(k) == k + 2
NextEntry(k) == k + 1

\* main() up to the loop: counters and the failures list are created
RunnerStart ==
    /\ prog \in Runners /\ pc = "start"
    /\ successes' = 0 /\ failures' = <<>>
    /\ i' = 1
    /\ pc' = "loop"
    /\ UNCHANGED <<prog, ok, out, calls, faults, rc, written>>
    /\ UNCHANGED <<eulerVars, treeVars, swVars, attVars, bridgeVars>>

\* for i, script_name in enumerate(SCRIPTS, 1): ... ok = run_script(script_name)
RunnerCall ==
    /\ prog \in Runners /\ pc = "loop" /\ i <= Len(SCRIPTS(prog))
    /\ calls' = Append(calls, [ev |-> "call", name |-> SCRIPTS(prog)[i], val |-> FALSE])
    /\ pc' = "run_script"
    /\ UNCHANGED <<prog, i, ok, successes, failures, out, faults, rc, written>>
    /\ UNCHANGED <<eulerVars, treeVars, swVars, attVars, bridgeVars>>

\* run_script: import_module + mod.main() inside try / except Exception.
\* A module that is not in SCRIPT_DIR makes import_module raise; one that is
\* there either completes or raises.
RunScript(raised) ==
    /\ prog \in Runners /\ pc = "run_script"
    /\ LET name == SCRIPTS(prog)[i] IN
       /\ name \notin GenFiles(prog) => raised
       /\ (raised /\ name \in GenFiles(prog)) => faults < MaxFaults
       /\ faults' = IF raised /\ name \in GenFiles(prog) THEN faults + 1 ELSE faults
       /\ ok' = RunScriptReturn(raised)
       /\ calls' = calls \o << [ev |-> IF raised THEN "raised" ELSE "completed", name |-> name, val |-> FALSE],
                               [ev |-> "return", name |-> name, val |-> RunScriptReturn(raised)] >>
    /\ pc' = "report"
    /\ UNCHANGED <<prog, i, successes, failures, out, rc, written>>
    /\ UNCHANGED <<eulerVars, treeVars, swVars, attVars, bridgeVars>>

\* the if ok / else of the loop body, then the next entry
RunnerReport ==
    /\ prog \in Runners /\ pc = "report"
    /\ LET name == SCRIPTS(prog)[i] IN
       IF ok = TRUE
       THEN /\ out' = Append(out, <<name, "Done">>)
            /\ successes' = successes + 1
            /\ UNCHANGED failures
       ELSE /\ out' = Append(out, <<name, "FAILED">>)
            /\ failures' = Append(failures, name)
            /\ UNCHANGED successes
    /\ i' = NextEntry(i)
    /\ pc' = "loop"
    /\ UNCHANGED <<prog, ok, calls, faults, rc, written>>
    /\ UNCHANGED <<eulerVars, treeVars, swVars, attVars, bridgeVars>>

\* after the loop: summary and return 0 if not failures else 1
RunnerSummary ==
    /\ prog \in Runners /\ pc = "loop" /\ i > Len(SCRIPTS(prog))
    /\ rc' = IF failures = <<>> THEN 0 ELSE 1
    /\ pc' = "done"
    /\ UNCHANGED <<prog, i, ok, successes, failures, out, calls, faults, written>>
    /\ UNCHANGED <<eulerVars, treeVars, swVars, attVars, bridgeVars>>

InitRunner ==
    /\ prog \in Runners /\ pc = "start" /\ i = 0
    /\ NoLoop /\ NoEuler /\ NoTree /\ NoSw /\ NoAtt /\ NoBridge

----------------------------------------------------------------------------
(* download_external.py (lecture-new-v2) and download_portraits.py (lecture-new) *)

Downloaders == {"download_external", "download_portraits"}

\* the filename column of EXTERNALS
EXTERNALS == << "xkcd-machine-learning.png", "xkcd-curve-fitting.png",
                "xkcd-frequentists-bayesians.png", "principia-title-page.jpg" >>

\* the filename column of PORTRAITS
PORTRAITS == << "grassmann-1860.jpg", "pascal-1663.jpg", "newton-1689.jpg",
                "leibniz-1695.jpg", "shannon-1963.jpg", "hinton-2024.jpg",
                "cayley-1883.jpg", "bayes.jpg" >>

Items(d) == IF d = "download_external" THEN EXTERNALS ELSE PORTRAITS

\* what can happen inside the try block of download_external / download_portrait:
\* urlopen / read raises, open / write raises, or the data is saved
DownloadOutcomes == {"fetch_raised", "write_raised", "saved"}

\* download_external / download_portrait: True at the end of the try block,
\* False from the except clause
\* (faulty variant: return True placed before the write)
DownloadReturnBeforeWrite(outcome) == outcome # "fetch_raised"
DownloadReturn(outcome) == outcome = "saved"

\* the for statement of the downloaders' main(): the entry after entry k
NextItem(k) == k + 1

\* main() up to the loop
DlStart ==
    /\ prog \in Downloaders /\ pc = "start"
    /\ successes' = 0 /\ failures' = <<>>
    /\ i' = 1
    /\ pc' = "loop"
    /\ UNCHANGED <<prog, ok, out, calls, faults, rc, written>>
    /\ UNCHANGED <<eulerVars, treeVars, swVars, attVars, bridgeVars>>

\* for filename, url, description in EXTERNALS: ok = download_external(...)
DlCall ==
    /\ prog \in Downloaders /\ pc = "loop" /\ i <= Len(Items(prog))
    /\ calls' = Append(calls, [ev |-> "call", name |-> Items(prog)[i], val |-> FALSE])
    /\ pc' = "download"
    /\ UNCHANGED <<prog, i, ok, successes, failures, out, faults, rc, written>>
    /\ UNCHANGED <<eulerVars, treeVars, swVars, attVars, bridgeVars>>

\* the body of download_external / download_portrait
Download(outcome) ==
    /\ prog \in Downloaders /\ pc = "download"
    /\ outcome # "saved" => faults < MaxFaults
    /\ faults' = IF outcome # "saved" THEN faults + 1 ELSE faults
    /\ LET name == Items(prog)[i] IN
       /\ written' = IF outcome = "saved" THEN written \cup {name} ELSE written
       /\ ok' = DownloadReturn(outcome)
       /\ calls' = calls \o << [ev |-> outcome, name |-> name, val |-> FALSE],
                               [ev |-> "return", name |-> name, val |-> DownloadReturn(outcome)] >>
    /\ pc' = "tally"
    /\ UNCHANGED <<prog, i, successes, failures, out, rc>>
    /\ UNCHANGED <<eulerVars, treeVars, swVars, attVars, bridgeVars>>

\* the if ok / else of the loop body, then the next entry
DlTally ==
    /\ prog \in Downloaders /\ pc = "tally"
    /\ IF ok = TRUE
       THEN successes' = successes + 1 /\ UNCHANGED failures
       ELSE failures' = Append(failures, Items(prog)[i]) /\ UNCHANGED successes
    /\ i' = NextItem(i)
    /\ pc' = "loop"
    /\ UNCHANGED <<prog, ok, out, calls, faults, rc, written>>
    /\ UNCHANGED <<eulerVars, treeVars, swVars, attVars, bridgeVars>>

\* after the loop: summary and return 0 if not failures else 1
DlSummary ==
    /\ prog \in Downloaders /\ pc = "loop" /\ i > Len(Items(prog))
    /\ rc' = IF failures = <<>> THEN 0 ELSE 1
    /\ pc' = "done"
    /\ UNCHANGED <<prog, i, ok, successes, failures, out, calls, faults, written>>
    /\ UNCHANGED <<eulerVars, treeVars, swVars, attVars, bridgeVars>>

InitDownloader ==
    /\ prog \in Downloaders /\ pc = "start" /\ i = 0
    /\ NoLoop /\ NoEuler /\ NoTree /\ NoSw /\ NoAtt /\ NoBridge

----------------------------------------------------------------------------
(* gen_04_cayley_trees.py *)

\* nx.Graph(): a node set and a set of unordered edges ({u, v}; {u} is a self-loop)
EmptyGraph == [nodes |-> {}, edges |-> {}]

\* G.add_nodes_from(nodes)
AddNodesFrom(G, nodes) == [G EXCEPT !.nodes = @ \cup nodes]

\* G.add_edges_from(list of (u, v)): endpoints become nodes, a repeated or
\* reversed pair is the same edge
AddEdgesFrom(G, edgeList) ==
    [nodes |-> G.nodes \cup UNION {{e[1], e[2]} : e \in Range(edgeList)},
     edges |-> G.edges \cup {{e[1], e[2]} : e \in Range(edgeList)}]

\* degree = {i: 1 for i in 1..n}; for v in prufer_seq: degree[v] += 1
InitialDegree(seq, nn) ==
    [u \in 1..nn |-> 1 + Cardinality({k \in 1..Len(seq) : seq[k] = u})]

\* the inner for of prufer_to_tree: the candidates for u, of which the loop takes the first
\* (faulty variant: degree[u] <= 1, which takes nodes already removed)
LeafCandidatesAtMostOne(degree, nn) == {u \in 1..nn : degree[u] <= 1}
LeafCandidates(degree, nn) == {u \in 1..nn : degree[u] = 1}

\* for u in range(1, n + 1): if degree[u] == 1: ... break   (0 when the loop finds none)
FirstLeaf(degree, nn) ==
    LET c == LeafCandidates(degree, nn)
    IN  IF c = {} THEN 0 ELSE CHOOSE u \in c : \A x \in c : u <= x

\* the outer for of prufer_to_tree, from position k of the sequence on
RECURSIVE PruferLoop(_, _, _, _, _)
PruferLoop(seq, nn, k, degree, edges) ==
    IF k > Len(seq) THEN [degree |-> degree, edges |-> edges]
    ELSE LET v == seq[k]
             u == FirstLeaf(degree, nn)
         IN  IF u = 0
             THEN PruferLoop(seq, nn, k + 1, degree, edges)
             ELSE LET d1 == [degree EXCEPT ![u] = @ - 1]
                      d2 == [d1 EXCEPT ![v] = @ - 1]
                  IN  PruferLoop(seq, nn, k + 1, d2, Append(edges, <<u, v>>))

\* the u in 1..nn with degree[u] == 1, ascending
RECURSIVE AscendingLeaves(_, _, _)
AscendingLeaves(degree, nn, u) ==
    IF u > nn THEN <<>>
    ELSE (IF degree[u] = 1 THEN <<u>> ELSE <<>>) \o AscendingLeaves(degree, nn, u + 1)

\* prufer_to_tree(prufer_seq, n): the edge list
PruferToTree(seq, nn) ==
    LET r    == PruferLoop(seq, nn, 1, InitialDegree(seq, nn), <<>>)
        last == AscendingLeaves(r.degree, nn, 1)
    IN  IF Len(last) = 2 THEN Append(r.edges, <<last[1], last[2]>>) ELSE r.edges

\* itertools.product(range(1, n + 1), repeat=len): all sequences, lexicographic
RECURSIVE ProductFrom(_, _, _)
ProductFrom(values, len, a) ==
    IF len = 0 THEN << <<>> >>
    ELSE IF a > Len(values) THEN <<>>
    ELSE LET rest == ProductFrom(values, len - 1, 1)
         IN  [k \in 1..Len(rest) |-> <<values[a]>> \o rest[k]]
               \o ProductFrom(values, len, a + 1)

\* range(1, n + 1) as a list
\* (faulty variant: range(1, n))
RangeShort(nn) == [k \in 1..(nn - 1) |-> k]
RangeFrom1(nn) == [k \in 1..nn |-> k]

PruferSequences(nn) == ProductFrom(RangeFrom1(nn), nn - 2, 1)

\* all_labeled_trees(n) up to the loop: the n == 1 and n == 2 cases return at once
TreesStart ==
    /\ prog = "gen_04_cayley_trees" /\ pc = "start"
    /\ IF n = 1
       THEN trees' = <<EmptyGraph>> /\ todo' = <<>> /\ pc' = "done"
       ELSE IF n = 2
       THEN /\ trees' = << AddEdgesFrom(EmptyGraph, << <<1, 2>> >>) >>
            /\ todo' = <<>> /\ pc' = "done"
       ELSE trees' = <<>> /\ todo' = PruferSequences(n) /\ pc' = "loop"
    /\ UNCHANGED <<prog, i, n, pruferCalls>>
    /\ UNCHANGED <<loopVars, eulerVars, swVars, attVars, bridgeVars>>

\* one iteration of for seq in itertools.product(...)
TreesStep ==
    /\ prog = "gen_04_cayley_trees" /\ pc = "loop" /\ todo # <<>>
    /\ LET seq   == Head(todo)
           edges == PruferToTree(seq, n)
           G     == AddEdgesFrom(AddNodesFrom(EmptyGraph, 1..n), edges)
       IN  /\ trees' = Append(trees, G)
           /\ pruferCalls' = Append(pruferCalls, [seq |-> seq, edges |-> edges])
    /\ todo' = Tail(todo)
    /\ UNCHANGED <<prog, pc, i, n>>
    /\ UNCHANGED <<loopVars, eulerVars, swVars, attVars, bridgeVars>>

\* return trees
TreesReturn ==
    /\ prog = "gen_04_cayley_trees" /\ pc = "loop" /\ todo = <<>>
    /\ pc' = "done"
    /\ UNCHANGED <<prog, i, treeVars>>
    /\ UNCHANGED <<loopVars, eulerVars, swVars, attVars, bridgeVars>>

InitTrees ==
    /\ prog = "gen_04_cayley_trees" /\ pc = "start" /\ i = 0
    /\ n \in 1..MaxN /\ todo = <<>> /\ trees = <<>> /\ pruferCalls = <<>>
    /\ NoLoop /\ NoEuler /\ NoSw /\ NoAtt /\ NoBridge

----------------------------------------------------------------------------
(* gen_02_konigsberg_graph.py and gen_03_euler_path.py *)

KProgs == {"gen_02_konigsberg_graph", "gen_03_euler_path"}

\* gen_02 edges / gen_03 k_edges: the same list in both files
KEdges == << <<"A", "C">>, <<"A", "C">>, <<"D", "C">>, <<"D", "C">>,
             <<"B", "C">>, <<"A", "B">>, <<"D", "B">> >>

\* the order the annotation loops visit the nodes (add_nodes_from / pos1)
KNodes == <<"A", "B", "C", "D">>

\* MultiGraph.add_edge(u, v): parallel edges are kept
\* (faulty variant: nx.Graph instead of nx.MultiGraph, parallel edges collapse)
GraphAddEdge(G, e) ==
    IF \E k \in 1..Len(G) : {G[k][1], G[k][2]} = {e[1], e[2]} THEN G ELSE Append(G, e)
MultiAddEdge(G, e) == Append(G, e)

\* MultiGraph.degree(v): every edge end at v counts (a self-loop twice)
MultiDegree(G, v) ==
    Cardinality({k \in 1..Len(G) : G[k][1] = v})
      + Cardinality({k \in 1..Len(G) : G[k][2] = v})

\* Graph.degree(v)
Degree(G, v) ==
    Cardinality({e \in G.edges : v \in e /\ Cardinality(e) = 2})
      + 2 * Cardinality({e \in G.edges : e = {v}})

\* gen_03: G2.add_edges_from([...])
G2Edges == << <<1, 2>>, <<2, 3>>, <<3, 4>>, <<4, 1>>, <<1, 3>> >>

\* gen_03: the keys of pos2, in order
G2Nodes == <<1, 2, 3, 4>>

\* gen_03: euler_path
\* (faulty variant: a walk that repeats 1-2 and never takes 1-3)
EulerPathRepeating == <<1, 2, 3, 4, 1, 2>>
EulerPath == <<1, 2, 3, 1, 4, 3>>

\* for e in edges: G.add_edge(*e)
KAddEdge ==
    /\ prog \in KProgs /\ pc = "build" /\ i <= Len(KEdges)
    /\ G1' = MultiAddEdge(G1, KEdges[i])
    /\ i' = i + 1
    /\ UNCHANGED <<prog, pc, labels1, G2, drawn, labels2>>
    /\ UNCHANGED <<loopVars, treeVars, swVars, attVars, bridgeVars>>

\* the add_edge loop is over
KBuilt ==
    /\ prog \in KProgs /\ pc = "build" /\ i > Len(KEdges)
    /\ pc' = "annotate" /\ i' = 1
    /\ UNCHANGED <<prog, eulerVars>>
    /\ UNCHANGED <<loopVars, treeVars, swVars, attVars, bridgeVars>>

\* one iteration of the degree annotation loop: gen_02 prints 'deg=<deg>',
\* gen_03 prints 'deg <deg> (odd)' whatever the degree is
KAnnotate ==
    /\ prog \in KProgs /\ pc = "annotate" /\ i <= Len(KNodes)
    /\ labels1' = Append(labels1,
                     [node |-> KNodes[i], deg |-> MultiDegree(G1, KNodes[i]),
                      parity |-> IF prog = "gen_03_euler_path" THEN "odd" ELSE "none"])
    /\ i' = i + 1
    /\ UNCHANGED <<prog, pc, G1, G2, drawn, labels2>>
    /\ UNCHANGED <<loopVars, treeVars, swVars, attVars, bridgeVars>>

\* gen_02: nothing else uses the graph
KDone ==
    /\ prog = "gen_02_konigsberg_graph" /\ pc = "annotate" /\ i > Len(KNodes)
    /\ pc' = "done"
    /\ UNCHANGED <<prog, i, eulerVars>>
    /\ UNCHANGED <<loopVars, treeVars, swVars, attVars, bridgeVars>>

\* gen_03, right panel: G2 = nx.Graph(); G2.add_edges_from(...)
G2Build ==
    /\ prog = "gen_03_euler_path" /\ pc = "annotate" /\ i > Len(KNodes)
    /\ G2' = AddEdgesFrom(EmptyGraph, G2Edges)
    /\ pc' = "path" /\ i' = 1
    /\ UNCHANGED <<prog, G1, labels1, drawn, labels2>>
    /\ UNCHANGED <<loopVars, treeVars, swVars, attVars, bridgeVars>>

\* for i in range(len(euler_path) - 1): draw the arrow euler_path[i] -> euler_path[i+1]
G2DrawArrow ==
    /\ prog = "gen_03_euler_path" /\ pc = "path" /\ i <= Len(EulerPath) - 1
    /\ drawn' = Append(drawn, <<EulerPath[i], EulerPath[i + 1]>>)
    /\ i' = i + 1
    /\ UNCHANGED <<prog, pc, G1, labels1, G2, labels2>>
    /\ UNCHANGED <<loopVars, treeVars, swVars, attVars, bridgeVars>>

\* the arrow loop is over
G2PathDrawn ==
    /\ prog = "gen_03_euler_path" /\ pc = "path" /\ i > Len(EulerPath) - 1
    /\ pc' = "annotate2" /\ i' = 1
    /\ UNCHANGED <<prog, eulerVars>>
    /\ UNCHANGED <<loopVars, treeVars, swVars, attVars, bridgeVars>>

\* for node in pos2: deg = G2.degree(node); is_odd = deg % 2 == 1; label
G2Annotate ==
    /\ prog = "gen_03_euler_path" /\ pc = "annotate2" /\ i <= Len(G2Nodes)
    /\ LET deg == Degree(G2, G2Nodes[i]) IN
       labels2' = Append(labels2,
                     [node |-> G2Nodes[i], deg |-> deg,
                      parity |-> IF deg % 2 = 1 THEN "odd" ELSE "even"])
    /\ i' = i + 1
    /\ UNCHANGED <<prog, pc, G1, labels1, G2, drawn>>
    /\ UNCHANGED <<loopVars, treeVars, swVars, attVars, bridgeVars>>

G2Done ==
    /\ prog = "gen_03_euler_path" /\ pc = "annotate2" /\ i > Len(G2Nodes)
    /\ pc' = "done"
    /\ UNCHANGED <<prog, i, eulerVars>>
    /\ UNCHANGED <<loopVars, treeVars, swVars, attVars, bridgeVars>>

InitKonigsberg ==
    /\ prog \in KProgs /\ pc = "build" /\ i = 1
    /\ G1 = <<>> /\ labels1 = <<>> /\ G2 = EmptyGraph /\ drawn = <<>> /\ labels2 = <<>>
    /\ NoLoop /\ NoTree /\ NoSw /\ NoAtt /\ NoBridge

----------------------------------------------------------------------------
(* gen_07_small_world.py *)

\* the unordered node pairs of a graph on the nodes 0..MaxNodesSW-1, smaller node first
PairsSW == {p \in (0..(MaxNodesSW - 1)) \X (0..(MaxNodesSW - 1)) : p[1] < p[2]}

\* a set of pairs as a list, ascending
RECURSIVE ListOf(_)
ListOf(E) ==
    IF E = {} THEN <<>>
    ELSE LET m == CHOOSE e \in E : \A x \in E :
                      e[1] < x[1] \/ (e[1] = x[1] /\ e[2] <= x[2])
         IN  <<m>> \o ListOf(E \ {m})

\* Graph.edges(): every edge once, its two endpoints in either order
EdgeLists ==
    UNION { { [k \in 1..Cardinality(E) |->
                 IF flip[ListOf(E)[k]] THEN <<ListOf(E)[k][2], ListOf(E)[k][1]>>
                                       ELSE ListOf(E)[k]]
              : flip \in [E -> BOOLEAN] }
            : E \in {X \in SUBSET PairsSW : Cardinality(X) <= MaxEdgesSW} }

\* frozenset(e)
FrozenSet(e) == {e[1], e[2]}

\* regular_set = set(frozenset(e) for e in G_regular.edges())
RegularSet(regEdges) == {FrozenSet(e) : e \in Range(regEdges)}

\* if frozenset(e) in regular_set
\* (faulty variant: the test only matches edges reported smaller node first)
IsKeptOrdered(e, regular_set) == e[1] < e[2] /\ FrozenSet(e) \in regular_set
IsKept(e, regular_set) == FrozenSet(e) \in regular_set

\* for e in G_rewired.edges(): kept.append(e) or rewired.append(e)
RECURSIVE DetectLoop(_, _, _, _, _)
DetectLoop(edges, k, regular_set, keptSoFar, rewiredSoFar) ==
    IF k > Len(edges) THEN <<keptSoFar, rewiredSoFar>>
    ELSE IF IsKept(edges[k], regular_set)
         THEN DetectLoop(edges, k + 1, regular_set, Append(keptSoFar, edges[k]), rewiredSoFar)
         ELSE DetectLoop(edges, k + 1, regular_set, keptSoFar, Append(rewiredSoFar, edges[k]))

\* detect_rewired_edges(G_regular, G_rewired): (kept, rewired)
DetectRewiredEdges(regEdges, rewEdges) ==
    DetectLoop(rewEdges, 1, RegularSet(regEdges), <<>>, <<>>)

\* kept, rewired = detect_rewired_edges(G_regular, G)
DetectRewired ==
    /\ prog = "gen_07_small_world" /\ pc = "start"
    /\ LET r == DetectRewiredEdges(G_regular, G_rewired)
       IN  kept' = r[1] /\ rewired' = r[2]
    /\ pc' = "done"
    /\ UNCHANGED <<prog, i, G_regular, G_rewired>>
    /\ UNCHANGED <<loopVars, eulerVars, treeVars, attVars, bridgeVars>>

InitSmallWorld ==
    /\ prog = "gen_07_small_world" /\ pc = "start" /\ i = 0
    /\ G_regular \in EdgeLists /\ G_rewired \in EdgeLists
    /\ kept = <<>> /\ rewired = <<>>
    /\ NoLoop /\ NoEuler /\ NoTree /\ NoAtt /\ NoBridge

----------------------------------------------------------------------------
(* gen_22_sparse_dense_attention.py *)

\* N = 16, the matrix dimension
N == 16

Abs(x) == IF x < 0 THEN -x ELSE x

\* the loops of sliding_window over a dim x dim matrix (dim is the global N):
\* mat[i, j] = 1.0 where abs(i - j) <= w // 2, else 0
SlidingWindowOn(dim, ww) ==
    [r \in 0..(dim - 1) |->
        [c \in 0..(dim - 1) |-> IF Abs(r - c) <= ww \div 2 THEN 1 ELSE 0]]

\* sliding_window(w)
SlidingWindowMat(ww) == SlidingWindowOn(N, ww)

\* np.ones((N, N))
FullAttentionOn(dim) == [r \in 0..(dim - 1) |-> [c \in 0..(dim - 1) |-> 1]]

\* full_attention()
FullAttentionMat == FullAttentionOn(N)

\* mat[r, :] = 1.0
SetRow(m, r) == [m EXCEPT ![r] = [c \in DOMAIN m[r] |-> 1]]

\* mat[:, c] = 1.0
\* (faulty variant: the row is assigned again instead of the column)
SetColAsRow(m, c) == SetRow(m, c)
SetCol(m, c) == [r \in DOMAIN m |-> [m[r] EXCEPT ![c] = 1]]

\* the body of longformer over a dim x dim matrix: the window, then row 0,
\* column 0, row N-1, column N-1
LongformerOn(dim, ww) ==
    LET m0 == SlidingWindowOn(dim, ww)
        m1 == SetRow(m0, 0)
        m2 == SetCol(m1, 0)
        m3 == SetRow(m2, dim - 1)
    IN  SetCol(m3, dim - 1)

\* longformer(w)
LongformerMat(ww) == LongformerOn(N, ww)

\* mat.sum(): all cells added up, row by row
RECURSIVE RowSumFrom(_, _)
RowSumFrom(row, c) ==
    IF c \notin DOMAIN row THEN 0 ELSE row[c] + RowSumFrom(row, c + 1)

RECURSIVE MatSumFrom(_, _)
MatSumFrom(m, r) ==
    IF r \notin DOMAIN m THEN 0 ELSE RowSumFrom(m[r], 0) + MatSumFrom(m, r + 1)

\* edges = int(mat.sum())
\* (faulty variant: the diagonal, a token attending to itself, is not counted)
MatSumOffDiagonal(m) == MatSumFrom(m, 0) - Cardinality({r \in DOMAIN m : m[r][r] = 1})
MatSum(m) == MatSumFrom(m, 0)

\* the panels list of main(): title and matrix
PanelTitles == <<"Full Attention", "Sliding Window (w=3)", "Longformer">>
PanelMat(k) == IF k = 1 THEN FullAttentionMat
               ELSE IF k = 2 THEN SlidingWindowMat(3)
               ELSE LongformerMat(3)

\* mat = sliding_window(w)
SlidingWindow ==
    /\ prog = "gen_22_sparse_dense_attention" /\ pc = "start"
    /\ mat' = SlidingWindowMat(w)
    /\ pc' = "done"
    /\ UNCHANGED <<prog, i, w, panels>>
    /\ UNCHANGED <<loopVars, eulerVars, treeVars, swVars, bridgeVars>>

\* mat = longformer(w)
Longformer ==
    /\ prog = "gen_22_sparse_dense_attention" /\ pc = "start"
    /\ mat' = LongformerMat(w)
    /\ pc' = "longformer_done"
    /\ UNCHANGED <<prog, i, w, panels>>
    /\ UNCHANGED <<loopVars, eulerVars, treeVars, swVars, bridgeVars>>

\* main(): one iteration of for ax, (title, mat, accent) in zip(axes, panels):
\* edges = int(mat.sum()), shown in the x label
PanelEdges ==
    /\ prog = "gen_22_sparse_dense_attention" /\ pc = "main" /\ i <= Len(PanelTitles)
    /\ mat' = PanelMat(i)
    /\ panels' = Append(panels, [title |-> PanelTitles[i], edges |-> MatSum(PanelMat(i))])
    /\ i' = i + 1
    /\ UNCHANGED <<prog, pc, w>>
    /\ UNCHANGED <<loopVars, eulerVars, treeVars, swVars, bridgeVars>>

\* the panel loop is over
PanelsDone ==
    /\ prog = "gen_22_sparse_dense_attention" /\ pc = "main" /\ i > Len(PanelTitles)
    /\ pc' = "main_done"
    /\ UNCHANGED <<prog, i, attVars>>
    /\ UNCHANGED <<loopVars, eulerVars, treeVars, swVars, bridgeVars>>

\* main() itself: the panels are built with w = 3
InitAttentionMain ==
    /\ prog = "gen_22_sparse_dense_attention" /\ pc = "main" /\ i = 1
    /\ w = 3 /\ mat = <<>> /\ panels = <<>>
    /\ NoLoop /\ NoEuler /\ NoTree /\ NoSw /\ NoBridge

InitAttention ==
    /\ prog = "gen_22_sparse_dense_attention" /\ pc = "start" /\ i = 0
    /\ w \in 1..MaxW /\ mat = <<>> /\ panels = <<>>
    /\ NoLoop /\ NoEuler /\ NoTree /\ NoSw /\ NoBridge

----------------------------------------------------------------------------
(* gen_08_six_degrees.py *)

\* the lists SIZES can be: the community sizes, each at least 1, of a network
\* of `total` nodes
RECURSIVE SizeLists(_)
SizeLists(total) ==
    IF total = 0 THEN { <<>> }
    ELSE UNION { { <<first>> \o rest : rest \in SizeLists(total - first) }
                 : first \in 1..total }

RECURSIVE SumOf(_)
SumOf(list) == IF list = <<>> THEN 0 ELSE Head(list) + SumOf(Tail(list))

\* nx.stochastic_block_model(SIZES, probs): a random graph on the nodes
\* 0..sum(SIZES)-1, without self-loops; any edge set can come out
SocialGraphs(total) ==
    LET nodes == 0..(total - 1)
        pairs == {{u, v} : u \in nodes, v \in nodes} \ {{u} : u \in nodes}
    IN  {[nodes |-> nodes, edges |-> E] : E \in SUBSET pairs}

\* for node in range(offset, offset + size): community_map[node] = c_idx
AssignCommunity(cmap, offset, size, c_idx) ==
    [x \in (DOMAIN cmap) \cup (offset..(offset + size - 1)) |->
        IF x \in offset..(offset + size - 1) THEN c_idx ELSE cmap[x]]

\* for c_idx, size in enumerate(SIZES): ...; offset += size   (k = c_idx + 1)
RECURSIVE CommunityLoop(_, _, _, _)
CommunityLoop(sizeList, k, offset, cmap) ==
    IF k > Len(sizeList) THEN cmap
    ELSE CommunityLoop(sizeList, k + 1, offset + sizeList[k],
                       AssignCommunity(cmap, offset, sizeList[k], k - 1))

\* the community_map build_social_network returns
CommunityMap(sizeList) == CommunityLoop(sizeList, 1, 0, <<>>)

\* G.neighbors(node)
Neighbors(G, v) == {u \in G.nodes : {u, v} \in G.edges}

\* the inner loop of find_bridge_nodes: the communities of node's neighbours
NeighbourCommunities(G, cmap, v) == {cmap[u] : u \in Neighbors(G, v)}

\* if len(neighbour_communities) >= 2
\* (faulty variant: > 2)
MoreThanTwoCommunities(nc) == Cardinality(nc) > 2
AtLeastTwoCommunities(nc) == Cardinality(nc) >= 2

\* find_bridge_nodes(G, community_map)
FindBridgeNodes(G, cmap) ==
    {v \in G.nodes : AtLeastTwoCommunities(NeighbourCommunities(G, cmap, v))}

\* G, community_map = build_social_network()
BuildSocialNetwork ==
    /\ prog = "gen_08_six_degrees" /\ pc = "start"
    /\ Gsoc' \in SocialGraphs(SumOf(sizes))
    /\ community_map' = CommunityMap(sizes)
    /\ pc' = "built"
    /\ UNCHANGED <<prog, i, sizes, bridge_nodes>>
    /\ UNCHANGED <<loopVars, eulerVars, treeVars, swVars, attVars>>

\* bridge_nodes = find_bridge_nodes(G, community_map)
FindBridges ==
    /\ prog = "gen_08_six_degrees" /\ pc = "built"
    /\ bridge_nodes' = FindBridgeNodes(Gsoc, community_map)
    /\ pc' = "done"
    /\ UNCHANGED <<prog, i, sizes, Gsoc, community_map>>
    /\ UNCHANGED <<loopVars, eulerVars, treeVars, swVars, attVars>>

InitSixDegrees ==
    /\ prog = "gen_08_six_degrees" /\ pc = "start" /\ i = 0
    /\ sizes \in UNION {SizeLists(t) : t \in 1..MaxSocialNodes}
    /\ Gsoc = EmptyGraph /\ community_map = <<>> /\ bridge_nodes = {}
    /\ NoLoop /\ NoEuler /\ NoTree /\ NoSw /\ NoAtt

----------------------------------------------------------------------------
Init == InitRunner \/ InitDownloader \/ InitTrees \/ InitKonigsberg
          \/ InitSmallWorld \/ InitAttention \/ InitAttentionMain
          \/ InitSixDegrees

Next ==
    \/ RunnerStart
    \/ RunnerCall
    \/ \E raised \in BOOLEAN : RunScript(raised)
    \/ RunnerReport
    \/ RunnerSummary
    \/ DlStart
    \/ DlCall
    \/ \E outcome \in DownloadOutcomes : Download(outcome)
    \/ DlTally
    \/ DlSummary
    \/ TreesStart
    \/ TreesStep
    \/ TreesReturn
    \/ KAddEdge
    \/ KBuilt
    \/ KAnnotate
    \/ KDone
    \/ G2Build
    \/ G2DrawArrow
    \/ G2PathDrawn
    \/ G2Annotate
    \/ G2Done
    \/ DetectRewired
    \/ SlidingWindow
    \/ Longformer
    \/ PanelEdges
    \/ PanelsDone
    \/ BuildSocialNetwork
    \/ FindBridges

Spec == Init /\ [][Next]_vars

----------------------------------------------------------------------------
(* Reading the event log *)

\* the names of the per-item calls made so far, in call order
CalledNames == LET cs == SelectSeq(calls, LAMBDA e : e.ev = "call")
               IN  [k \in 1..Len(cs) |-> cs[k].name]

\* the per-item calls that have returned, in order: name and value returned
Returned == SelectSeq(calls, LAMBDA e : e.ev = "return")

\* what happened inside the k-th returned call (the event before its return)
BodyEvents == SelectSeq(calls, LAMBDA e : e.ev \notin {"call", "return"})

\* no call starts while another is running: before every call event there are
\* as many returns as calls
NoOverlap ==
    \A k \in 1..Len(calls) :
        calls[k].ev = "call" =>
            Cardinality({j \in 1..(k-1) : calls[j].ev = "call"})
              = Cardinality({j \in 1..(k-1) : calls[j].ev = "return"})

\* the entries of a list for which the body raised, in list order
RaisedIn(list, upto) ==
    LET bad(k) == BodyEvents[k].ev # "completed" /\ BodyEvents[k].ev # "saved"
        RECURSIVE pick(_)
        pick(k) == IF k > upto THEN <<>>
                   ELSE IF bad(k) THEN <<list[k]>> \o pick(k + 1) ELSE pick(k + 1)
    IN pick(1)

----------------------------------------------------------------------------
(* C1 .. C4: the runners and the downloaders *)

\* C1: in a runner's main(), run_script is called once per entry of SCRIPTS,
\* in list order, each call starting only after the previous one returned;
\* when main() returns every entry has been called.
C1_RunnerCallsEachScriptOnceInOrder ==
    prog \in Runners =>
        /\ Len(CalledNames) <= Len(SCRIPTS(prog))
        /\ CalledNames = SubSeq(SCRIPTS(prog), 1, Len(CalledNames))
        /\ NoOverlap
        /\ Len(CalledNames) - Len(Returned) \in {0, 1}
        /\ pc = "done" => /\ CalledNames = SCRIPTS(prog)
                          /\ Len(Returned) = Len(SCRIPTS(prog))

\* a whole run of the lecture-08 runner in which two scripts raised
C1_Witness ==
    /\ prog = "lecture-08/generate_all" /\ pc = "done"
    /\ Len(CalledNames) = 19 /\ Len(failures) = 2

\* C2: a script whose import or main() raises makes run_script return False,
\* is reported FAILED and appended to failures, and the later entries still
\* run; a script that raises nothing makes run_script return True, is
\* reported Done and counted in successes.
C2_RunnerReportsFailuresAndContinues ==
    prog \in Runners =>
        /\ \A k \in 1..Len(Returned) :
              /\ Returned[k].name = SCRIPTS(prog)[k]
              /\ Returned[k].val = (BodyEvents[k].ev = "completed")
        /\ \A k \in 1..Len(out) :
              out[k] = << SCRIPTS(prog)[k],
                          IF BodyEvents[k].ev = "raised" THEN "FAILED" ELSE "Done" >>
        /\ failures = RaisedIn(SCRIPTS(prog), Len(out))
        /\ successes = Len(out) - Len(failures)
        /\ pc = "done" => Len(out) = Len(SCRIPTS(prog))

\* the first script raised, the run went on, a later one raised too, the rest were Done
C2_Witness ==
    /\ prog = "lecture-08/generate_all" /\ pc = "done"
    /\ failures = <<"gen_01_konigsberg", "gen_07_small_world">>
    /\ successes = 17
    /\ out[19] = <<"gen_19_graphrag_concept", "Done">>

\* C3: the names in SCRIPTS are exactly the gen_*.py modules of the runner's
\* own directory, each once: when main() returns, the modules it called are
\* the modules of the directory.
C3_ScriptsAreTheGenFilesOfTheDirectory ==
    (prog \in Runners /\ pc = "done") =>
        /\ Range(CalledNames) = GenFiles(prog)
        /\ Cardinality(Range(CalledNames)) = Len(CalledNames)

\* C4: a downloader's main() attempts every entry of its list once, in list
\* order (4 entries of EXTERNALS, 8 of PORTRAITS); the per-item function
\* returns True exactly when the data was fetched and written, False when an
\* exception occurred; a failed item does not stop the later ones.
C4_DownloaderAttemptsAllAndReportsTruthfully ==
    prog \in Downloaders =>
        /\ Len(CalledNames) <= Len(Items(prog))
        /\ CalledNames = SubSeq(Items(prog), 1, Len(CalledNames))
        /\ NoOverlap
        /\ \A k \in 1..Len(Returned) :
              /\ Returned[k].name = Items(prog)[k]
              /\ Returned[k].val = (Returned[k].name \in written)
              /\ Returned[k].val = FALSE
                    <=> BodyEvents[k].ev \in {"fetch_raised", "write_raised"}
        /\ pc = "done" =>
              /\ CalledNames = Items(prog)
              /\ Len(CalledNames) = (IF prog = "download_external" THEN 4 ELSE 8)
              /\ successes = Cardinality(written)
              /\ failures = RaisedIn(Items(prog), Len(Items(prog)))
              /\ rc = (IF failures = <<>> THEN 0 ELSE 1)

\* the first portrait could not be fetched, the second could not be written,
\* and the six after them were downloaded
C4_Witness ==
    /\ prog = "download_portraits" /\ pc = "done"
    /\ failures = <<"grassmann-1860.jpg", "pascal-1663.jpg">>
    /\ BodyEvents[1].ev = "fetch_raised" /\ BodyEvents[2].ev = "write_raised"
    /\ successes = 6

----------------------------------------------------------------------------
(* Graph notions the tree claims are stated in *)

\* the nodes reachable from the nodes in reach along the edges E
RECURSIVE ReachableFrom(_, _)
ReachableFrom(reach, E) ==
    LET more == reach \cup UNION {e \in E : e \cap reach # {}}
    IN  IF more = reach THEN reach ELSE ReachableFrom(more, E)

Connected(nodes, E) ==
    nodes = {} \/ \E v \in nodes : ReachableFrom({v}, E) = nodes

\* no cycle: stripping leaves (and their edge) over and over leaves no edge
RECURSIVE Acyclic(_)
Acyclic(E) ==
    IF E = {} THEN TRUE
    ELSE LET deg(v) == Cardinality({e \in E : v \in e})
             leafEdges == {e \in E : Cardinality(e) = 2 /\ \E v \in e : deg(v) = 1}
         IN  IF leafEdges = {} THEN FALSE ELSE Acyclic(E \ leafEdges)

\* every labeled tree on the nodes 1..nn, as an edge set
AllLabeledTreeEdgeSets(nn) ==
    LET pairs == {{u, v} : u \in 1..nn, v \in 1..nn} \ {{u} : u \in 1..nn}
    IN  {E \in SUBSET pairs : Cardinality(E) = nn - 1 /\ Connected(1..nn, E)}

RECURSIVE Power(_, _)
Power(b, e) == IF e = 0 THEN 1 ELSE b * Power(b, e - 1)

----------------------------------------------------------------------------
(* C5, C6: gen_04_cayley_trees.py *)

\* C5: for n = 2, 3, 4 (and larger n within the bound) all_labeled_trees(n)
\* returns n^(n-2) graphs (1, 3, 16) whose edge sets are pairwise different,
\* and every labeled tree on 1..n is among them exactly once.
C5_CayleyCount ==
    (prog = "gen_04_cayley_trees" /\ pc = "done" /\ n >= 2) =>
        /\ Len(trees) = Power(n, n - 2)
        /\ n = 2 => Len(trees) = 1
        /\ n = 3 => Len(trees) = 3
        /\ n = 4 => Len(trees) = 16
        /\ \A a, b \in 1..Len(trees) : a # b => trees[a].edges # trees[b].edges
        /\ {trees[k].edges : k \in 1..Len(trees)} = AllLabeledTreeEdgeSets(n)
        /\ \A k \in 1..Len(trees) : trees[k].nodes = 1..n

\* all_labeled_trees(4) has returned its 16 graphs
C5_Witness ==
    /\ prog = "gen_04_cayley_trees" /\ pc = "done" /\ n = 4
    /\ Len(trees) = 16 /\ Len(pruferCalls) = 16

\* C6: for n >= 3 and every sequence of length n-2 over 1..n, prufer_to_tree
\* returns n-1 edges that form a tree on 1..n: no self-loop, no repeated
\* edge, connected, acyclic.
C6_PruferGivesTree ==
    (prog = "gen_04_cayley_trees" /\ n >= 3) =>
        /\ \A k \in 1..Len(pruferCalls) :
              LET edges == pruferCalls[k].edges
                  E     == {{e[1], e[2]} : e \in Range(edges)}
              IN  /\ Len(edges) = n - 1
                  /\ \A j \in 1..Len(edges) :
                        /\ edges[j][1] \in 1..n /\ edges[j][2] \in 1..n
                        /\ edges[j][1] # edges[j][2]
                  /\ Cardinality(E) = Len(edges)
                  /\ Connected(1..n, E)
                  /\ Acyclic(E)
        /\ pc = "done" =>
              {pruferCalls[k].seq : k \in 1..Len(pruferCalls)} = [1..(n - 2) -> 1..n]

\* prufer_to_tree((4, 4), 4) has returned the star centred on node 4
C6_Witness ==
    /\ prog = "gen_04_cayley_trees" /\ n = 4
    /\ \E k \in 1..Len(pruferCalls) :
          /\ pruferCalls[k].seq = <<4, 4>>
          /\ pruferCalls[k].edges = << <<1, 4>>, <<2, 4>>, <<3, 4>> >>

----------------------------------------------------------------------------
(* C7, C8: gen_02_konigsberg_graph.py, gen_03_euler_path.py *)

\* how many edges of the multigraph join u and v
Multiplicity(G, u, v) == Cardinality({k \in 1..Len(G) : {G[k][1], G[k][2]} = {u, v}})

\* C7: the Koenigsberg multigraph of gen_02 and of gen_03 has 7 edges (A-C
\* twice, D-C twice, B-C, A-B, D-B) and degrees A=3, B=3, C=5, D=3, all odd,
\* as the left panel of gen_03 labels every node.
C7_KonigsbergDegrees ==
    (prog \in KProgs /\ pc # "build") =>
        /\ Len(G1) = 7
        /\ Multiplicity(G1, "A", "C") = 2 /\ Multiplicity(G1, "D", "C") = 2
        /\ Multiplicity(G1, "B", "C") = 1 /\ Multiplicity(G1, "A", "B") = 1
        /\ Multiplicity(G1, "D", "B") = 1
        /\ Multiplicity(G1, "A", "D") = 0
        /\ \A k \in 1..Len(labels1) :
              /\ labels1[k].deg = (IF labels1[k].node = "C" THEN 5 ELSE 3)
              /\ labels1[k].deg % 2 = 1
              /\ prog = "gen_03_euler_path" => labels1[k].parity = "odd"
        /\ pc \notin {"build", "annotate"} =>
              {labels1[k].node : k \in 1..Len(labels1)} = {"A", "B", "C", "D"}

\* gen_03 has labelled the four nodes of the left panel
C7_Witness ==
    /\ prog = "gen_03_euler_path" /\ pc = "done"
    /\ Len(labels1) = 4 /\ labels1[3] = [node |-> "C", deg |-> 5, parity |-> "odd"]

----------------------------------------------------------------------------
(* C9: gen_07_small_world.py *)

\* C9: detect_rewired_edges splits the edges of G_rewired into two disjoint
\* lists kept and rewired that together hold every edge of G_rewired exactly
\* once; an edge is in rewired exactly when its unordered endpoint pair is
\* not an edge of G_regular, whichever way round the endpoints are reported.
C9_DetectRewiredPartition ==
    (prog = "gen_07_small_world" /\ pc = "done") =>
        /\ Range(kept) \cap Range(rewired) = {}
        /\ Range(kept) \cup Range(rewired) = Range(G_rewired)
        /\ Len(kept) + Len(rewired) = Len(G_rewired)
        /\ \A e \in Range(G_rewired) :
              e \in Range(rewired) <=>
                 ~ \E r \in Range(G_regular) :
                      \/ (r[1] = e[1] /\ r[2] = e[2])
                      \/ (r[1] = e[2] /\ r[2] = e[1])

\* an edge reported as (1, 0) by G_rewired and as (0, 1) by the baseline is
\* kept, and another edge of G_rewired is rewired
C9_Witness ==
    /\ prog = "gen_07_small_world" /\ pc = "done"
    /\ <<0, 1>> \in Range(G_regular)
    /\ <<1, 0>> \in Range(kept)
    /\ rewired # <<>>

----------------------------------------------------------------------------
(* C10: gen_22_sparse_dense_attention.py *)

\* the columns of row r that hold a 1
OnesOfRow(m, r) == {c \in 0..(N - 1) : m[r][c] = 1}

\* C10: sliding_window(w) is a diagonal band of width w: for every w >= 1,
\* each row at least w cells away from both borders holds exactly w ones,
\* contiguous and centred on the diagonal, and 0 elsewhere.
C10_BandOfWidthW ==
    (prog = "gen_22_sparse_dense_attention" /\ pc = "done") =>
        \A r \in 0..(N - 1) :
            (r >= w /\ r <= N - 1 - w) =>
                LET ones == OnesOfRow(mat, r)
                    lo == CHOOSE c \in ones : \A x \in ones : c <= x
                    hi == CHOOSE c \in ones : \A x \in ones : c >= x
                IN  /\ ones # {}
                    /\ Cardinality(ones) = w
                    /\ ones = lo..hi
                    /\ lo + hi = 2 * r
                    /\ \A c \in (0..(N - 1)) \ ones : mat[r][c] = 0

----------------------------------------------------------------------------
(* C11, C12: gen_22_sparse_dense_attention.py *)

\* C11: longformer(w) is the sliding window plus two global tokens: cell
\* (i, j) is 1 exactly when sliding_window(w) has a 1 there or i or j is the
\* first (0) or last (N-1) token; rows and columns 0 and N-1 are all ones,
\* and the matrix is symmetric.
C11_LongformerIsWindowPlusGlobals ==
    (prog = "gen_22_sparse_dense_attention" /\ pc = "longformer_done") =>
        /\ DOMAIN mat = 0..(N - 1)
        /\ \A r \in 0..(N - 1) : DOMAIN mat[r] = 0..(N - 1)
        /\ \A r, c \in 0..(N - 1) :
              /\ mat[r][c] \in {0, 1}
              /\ mat[r][c] = 1 <=>
                    \/ Abs(r - c) <= w \div 2
                    \/ r \in {0, N - 1}
                    \/ c \in {0, N - 1}
              /\ mat[r][c] = 1 <=>
                    (SlidingWindowMat(w)[r][c] = 1 \/ r \in {0, N - 1} \/ c \in {0, N - 1})
              /\ mat[r][c] = mat[c][r]
        /\ \A k \in 0..(N - 1) :
              /\ mat[0][k] = 1 /\ mat[N - 1][k] = 1
              /\ mat[k][0] = 1 /\ mat[k][N - 1] = 1

\* longformer(3): token 5 attends to the global tokens and its window, not to token 8
C11_Witness ==
    /\ prog = "gen_22_sparse_dense_attention" /\ pc = "longformer_done" /\ w = 3
    /\ mat[5][0] = 1 /\ mat[5][15] = 1 /\ mat[5][4] = 1 /\ mat[5][6] = 1
    /\ mat[5][8] = 0

\* C12: the number of 1-cells main() shows as edges is N*N for
\* full_attention (256), and linear in N for sliding_window(3) and
\* longformer(3): 3N-2 and 7N-12 (46 and 100 for N = 16); the same counts
\* hold on every dimension from 3 to MaxDim.
C12_EdgeCounts ==
    (prog = "gen_22_sparse_dense_attention" /\ pc \in {"main", "main_done"}) =>
        /\ \A k \in 1..Len(panels) : panels[k].title = PanelTitles[k]
        /\ Len(panels) >= 1 => (panels[1].edges = N * N /\ panels[1].edges = 256)
        /\ Len(panels) >= 2 => (panels[2].edges = 3 * N - 2 /\ panels[2].edges = 46)
        /\ Len(panels) >= 3 => (panels[3].edges = 7 * N - 12 /\ panels[3].edges = 100)
        /\ pc = "main_done" =>
              /\ Len(panels) = 3
              /\ \A d \in 3..MaxDim :
                    /\ MatSum(FullAttentionOn(d)) = d * d
                    /\ MatSum(SlidingWindowOn(d, 3)) = 3 * d - 2
                    /\ MatSum(LongformerOn(d, 3)) = 7 * d - 12

\* main() has shown the three edge counts
C12_Witness ==
    /\ prog = "gen_22_sparse_dense_attention" /\ pc = "main_done"
    /\ Len(panels) = 3
    /\ panels[3] = [title |-> "Longformer", edges |-> 100]

----------------------------------------------------------------------------
(* C13: gen_08_six_degrees.py *)

\* C13: find_bridge_nodes returns exactly the nodes with edges to at least
\* two different communities: v is in the result exactly when two of its
\* neighbours lie in different communities, that is when the set of its
\* neighbours' communities has at least two elements.
C13_BridgeNodes ==
    (prog = "gen_08_six_degrees" /\ pc = "done") =>
        /\ bridge_nodes \subseteq Gsoc.nodes
        /\ \A v \in Gsoc.nodes :
              /\ v \in bridge_nodes <=>
                    \E a, b \in Gsoc.nodes :
                        /\ {a, v} \in Gsoc.edges /\ {b, v} \in Gsoc.edges
                        /\ community_map[a] # community_map[b]
              /\ v \in bridge_nodes <=>
                    Cardinality({c \in 0..(Len(sizes) - 1) :
                                    \E u \in Gsoc.nodes :
                                        {u, v} \in Gsoc.edges /\ community_map[u] = c}) >= 2

\* SIZES = [2, 2]: node 1 has neighbours 0 (community 0) and 2 (community 1)
\* and is a bridge; node 3 has the two neighbours 0 and 1, both of community
\* 0, and is not
C13_Witness ==
    /\ prog = "gen_08_six_degrees" /\ pc = "done"
    /\ sizes = <<2, 2>>
    /\ Gsoc.edges = {{0, 1}, {1, 2}, {0, 3}, {1, 3}}
    /\ 1 \in bridge_nodes /\ 3 \notin bridge_nodes

====
